---- MODULE Spec2Model ----
(***************************************************************************)
(* TwicketBot: the ticket monitoring loop of twicket_bot/core/bot.py, the  *)
(* availability client of services/api_client.py and the acceptance filter *)
(* TwicketBot._should_skip_listing.                                        *)
(*                                                                         *)
(* Python strings are modelled as sequences of code points, so that        *)
(* f-string keys are real concatenations and list.sort(key=section) is a   *)
(* real lexicographic comparison.  Prices are whole pounds.                *)
(***************************************************************************)
EXTENDS Integers, Sequences, FiniteSets, TLC

VARIABLES
    config,           \* TwicketConfig (min_seats, max_seats, max_price, skip_meetup_delivery)
    market,           \* the listings the marketplace offers during this run
    pc,               \* position of the process in run_monitoring_loop
    cycle,            \* number of finished loop iterations; also the clock of datetime.now()
    fetched,          \* the list returned by check_event_availability, in marketplace order
    options,          \* the same list after options.sort: positions into fetched
    idx,              \* position of the for loop in options
    found_tickets,    \* self.found_tickets: ticket_key -> ticket_info
    opened_tickets,   \* self.opened_tickets: set of listing ids
    tickets_processed,
    tickets_opened,
    browser_manager,  \* BrowserManager: per resource, its handle and its start/close history
    exit_code,        \* exit status of the process, -1 while it runs
    ended,            \* what ended the run, "" while it runs
    sleep_time,       \* the duration handed to sleep() while the process sleeps, else -1
    cycleLog,         \* history: the _process_listing calls of this cycle, in order
    everOpened,       \* history: per identity, number of times its entry was set to Opened
    everNotified,     \* history: per identity, number of notify_ticket_found calls
    observed,         \* history: the identities _process_listing has recorded
    failed_cycles     \* history: the cycles whose check_event_availability raised

envVars == << config, market >>
loopVars == << cycle, fetched, options, idx >>
ledgerVars == << found_tickets, opened_tickets, tickets_processed, tickets_opened >>
processVars == << browser_manager, exit_code, ended >>
historyVars == << cycleLog, everOpened, everNotified, observed, failed_cycles >>

vars == << envVars, pc, loopVars, ledgerVars, processVars, sleep_time, historyVars >>

----------------------------------------------------------------------------
(* Bounds of the model *)

MaxCycles == 2
MaxListings == 2
MaxMarket == 2
MaxSeatsInput == 12
MaxDelay == 12
Resolution == 8

----------------------------------------------------------------------------
(* Strings *)

Hyphen == 45
MeetupMethod == 1

\* code points of the decimal digits
Digit(c) == c - 48

\* int(s) for a string of decimal digits
RECURSIVE IntOfStr(_)
IntOfStr(s) ==
    IF s = << >> THEN 0
    ELSE 10 * IntOfStr(SubSeq(s, 1, Len(s) - 1)) + Digit(s[Len(s)])

\* str(n) for a natural number
RECURSIVE StrOfInt(_)
StrOfInt(n) ==
    IF n < 10 THEN << 48 + n >>
    ELSE StrOfInt(n \div 10) \o << 48 + (n % 10) >>

\* Python's str < str: lexicographic by code point, a proper prefix is smaller
RECURSIVE StrLess(_, _)
StrLess(a, b) ==
    IF b = << >> THEN FALSE
    ELSE IF a = << >> THEN TRUE
    ELSE IF Head(a) < Head(b) THEN TRUE
    ELSE IF Head(a) > Head(b) THEN FALSE
    ELSE StrLess(Tail(a), Tail(b))

----------------------------------------------------------------------------
(* Data *)

Listing(id, seats, section, row, price) ==
    [id |-> id, seats |-> seats, section |-> section, row |-> row, price |-> price]

\* The listings the marketplace may return.
\*   T1   section "A",   row "B",   2 seats, id "3", 40 pounds
\*   T1p  the same listing at 60 pounds
\*   T2   section "A",   row "B-2", 3 seats, id "7"
\*   T3   section "B",   row "1",   2 seats, id "3"   (id of T1, other seat block)
\*   T4   section "A2",  row "1",   4 seats, id "5"
\*   T5   section "A-B", row "2",   3 seats, id "7"
T1  == Listing(<<51>>, <<50>>, <<65>>, <<66>>, 40)
T1p == Listing(<<51>>, <<50>>, <<65>>, <<66>>, 60)
T2  == Listing(<<55>>, <<51>>, <<65>>, <<66, 45, 50>>, 40)
T3  == Listing(<<51>>, <<50>>, <<66>>, <<49>>, 40)
T4  == Listing(<<53>>, <<52>>, <<65, 50>>, <<49>>, 40)
T5  == Listing(<<55>>, <<51>>, <<65, 45, 66>>, <<50>>, 40)

Listings == {T1, T1p, T2, T3, T4, T5}

\* TicketIdentity of the specification: section, row, seat count, listing id
Identity(l) == << l.section, l.row, l.seats, l.id >>

Identities == { Identity(l) : l \in Listings }

NoPrice == [isNone |-> TRUE, value |-> 0]
Price(p) == [isNone |-> FALSE, value |-> p]

Config(mn, mx, mp, skip, delay) ==
    [min_seats |-> mn, max_seats |-> mx, max_price |-> mp, skip_meetup_delivery |-> skip,
     time_delay |-> delay]

\* the configuration of the monitoring runs: the defaults of TwicketConfig with a
\* maximum price of 50 pounds
Configs == { Config(1, 4, Price(50), TRUE, 2) }

\* Optional[str]: a string or None
NoneStr == [isNone |-> TRUE, str |-> << >>]
Str(s) == [isNone |-> FALSE, str |-> s]

\* how an f-string formats an Optional[str]: None is written "None"
FormatStr(v) == IF v.isNone THEN <<78, 111, 110, 101>> ELSE v.str

NoBlock == [present |-> FALSE, block_id |-> NoneStr]
Block(b) == [present |-> TRUE, block_id |-> b]

\* Optional[TicketAvailability]
NoneAvailability ==
    [isNone |-> TRUE, available |-> FALSE, block |-> NoBlock, delivery_plan |-> << >>]
Availability(a, b, d) ==
    [isNone |-> FALSE, available |-> a, block |-> b, delivery_plan |-> d]

\* The JSON the inventory endpoint may answer with (page.evaluate may also raise).
\*   kind    "raise": page.evaluate raises; "null": a falsy body; "json": an object
\*   block   "absent" (missing or falsy), "noid" (a non-empty object without
\*           blockId) or "ok" (an object with blockId, which is a string or null)
Response(k, a, b, bid, d) ==
    [kind |-> k, available |-> a, block |-> b, blockId |-> bid, deliveryPlan |-> d]

Responses ==
    { Response("raise", FALSE, "absent", NoneStr, << >>),
      Response("null", FALSE, "absent", NoneStr, << >>),
      Response("json", FALSE, "absent", NoneStr, << >>),
      Response("json", TRUE, "absent", NoneStr, << >>),
      Response("json", TRUE, "noid", NoneStr, << >>),
      Response("json", TRUE, "ok", NoneStr, << >>),
      Response("json", TRUE, "ok", Str(<<98, 49>>), << >>),
      Response("json", TRUE, "ok", Str(<<98, 49>>), <<0, 1>>) }

----------------------------------------------------------------------------
(* api_client.py *)

Returned(v) == [raised |-> FALSE, value |-> v]
Raised == [raised |-> TRUE, value |-> NoneAvailability]

\* mutant: an answer without block keeps its available flag
GetTicketAvailabilityKeepsFlag(result) ==
    IF result.kind = "raise" THEN Raised
    ELSE IF result.kind = "null" THEN Returned(NoneAvailability)
    ELSE IF result.available /\ result.block # "absent"
         THEN IF result.block = "noid"
              THEN Raised
              ELSE Returned(Availability(TRUE, Block(result.blockId), result.deliveryPlan))
         ELSE Returned(Availability(result.available, NoBlock, << >>))

\* TwicketAPIClient.get_ticket_availability, from the body of the HTTP answer on
GetTicketAvailability(result) ==
    IF result.kind = "raise" THEN Raised
    ELSE IF result.kind = "null" THEN Returned(NoneAvailability)
    ELSE IF result.available /\ result.block # "absent"
         THEN IF result.block = "noid"
              THEN Raised     \* result['block']['blockId'] raises KeyError
              ELSE Returned(Availability(TRUE, Block(result.blockId), result.deliveryPlan))
         ELSE Returned(Availability(FALSE, NoBlock, << >>))

----------------------------------------------------------------------------
(* browser_manager.py *)

\* the resources of BrowserManager, in the order initialize() starts them
Resources == << "playwright", "browser", "context", "page" >>

ResourceNames == { Resources[i] : i \in DOMAIN Resources }

\* BrowserManager.__init__: every handle is None
NoBrowser == [r \in ResourceNames |-> [handle |-> FALSE, starts |-> 0, closes |-> 0]]

\* BrowserManager.initialize() as far as its n-th assignment: it raises behind the
\* n-th one when n < 4, and may raise in page.goto when n = 4
BrowserInitialize(bm, n) ==
    [r \in ResourceNames |->
        IF \E i \in 1..n : Resources[i] = r
        THEN [handle |-> TRUE, starts |-> bm[r].starts + 1, closes |-> bm[r].closes]
        ELSE bm[r]]

\* mutant: cleanup leaves the page open
CleanupKeepsPage(bm) ==
    [r \in ResourceNames |->
        IF bm[r].handle /\ r # "page"
        THEN [handle |-> FALSE, starts |-> bm[r].starts, closes |-> bm[r].closes + 1]
        ELSE bm[r]]

\* mutant: cleanup closes every resource that was started, set or not
CleanupClosesAgain(bm) ==
    [r \in ResourceNames |->
        IF bm[r].starts > 0
        THEN [handle |-> FALSE, starts |-> bm[r].starts, closes |-> bm[r].closes + 1]
        ELSE bm[r]]

\* BrowserManager.cleanup: every handle that is set is closed and set to None
Cleanup(bm) ==
    [r \in ResourceNames |->
        IF bm[r].handle
        THEN [handle |-> FALSE, starts |-> bm[r].starts, closes |-> bm[r].closes + 1]
        ELSE bm[r]]

----------------------------------------------------------------------------
(* notification_service.py *)

\* what requests.post of _send_discord_webhook does: it succeeds or raises
Deliveries == { "ok", "fail" }

\* mutant: a failed delivery is raised to the caller
NotifyRaisesOnFailure(delivery) == delivery = "fail"

\* whether notify_ticket_found raises: _send_discord_webhook catches every
\* exception of requests.post and logs it
NotifyRaises(delivery) == FALSE

----------------------------------------------------------------------------
(* main.py *)

\* mutant: the process always ends with status 0
MainExitCodeZero(pending) == 0

\* the exit status main() ends with, by what leaves the with block: nothing,
\* KeyboardInterrupt (return 0), SystemExit(1) of sys.exit(1), or an Exception
MainExitCode(pending) ==
    CASE pending = "none" -> 0
      [] pending = "KeyboardInterrupt" -> 0
      [] pending = "SystemExit" -> 1
      [] OTHER -> 1

----------------------------------------------------------------------------
(* bot.py: the ledger *)

\* ticket_key of _process_listing
TicketKey(listing) ==
    listing.section \o <<Hyphen>> \o listing.row \o <<Hyphen>> \o listing.seats
        \o <<Hyphen>> \o listing.id

\* ticket_key of _should_skip_listing
SkipKey(listing) ==
    listing.section \o <<Hyphen>> \o listing.row \o <<Hyphen>> \o listing.seats

\* "Add or update ticket info" of _process_listing
RecordObservation(found, listing, now) ==
    LET key == TicketKey(listing) IN
    IF key \notin DOMAIN found
    THEN [k \in DOMAIN found \cup {key} |->
            IF k = key
            THEN [id |-> listing.id, section |-> listing.section, row |-> listing.row,
                  seats |-> listing.seats, price |-> listing.price,
                  status |-> "Checking...", timestamp |-> now]
            ELSE found[k]]
    ELSE [found EXCEPT ![key].id = listing.id,
                       ![key].status = "Checking...",
                       ![key].timestamp = now]

SetStatus(found, key, status) == [found EXCEPT ![key].status = status]

\* ticket_url of _process_listing
UrlPrefix ==
    << 104, 116, 116, 112, 115, 58, 47, 47, 119, 119, 119, 46, 116, 119, 105, 99, 107,
       101, 116, 115, 46, 108, 105, 118, 101, 47, 97, 112, 112, 47, 98, 108, 111, 99,
       107, 47 >>

\* mutant: the URL names the block only
TicketUrlWithoutSeats(block_id, seats) == UrlPrefix \o FormatStr(block_id)

TicketUrl(block_id, seats) == UrlPrefix \o FormatStr(block_id) \o <<44>> \o seats

\* mutant: the guard never finds a ticket
HasActedNever(listing, opened) == FALSE

\* "Check if we've already opened this ticket"
HasActed(listing, opened) == listing.id \in opened

\* mutant: the open action is not remembered
MarkActedForgets(listing, opened) == opened

\* mutant: the ledger key is remembered where the guard looks for the listing id
MarkActedByKey(listing, opened) == opened \cup {TicketKey(listing)}

\* self.opened_tickets.add(listing.id)
MarkActed(listing, opened) == opened \cup {listing.id}

----------------------------------------------------------------------------
(* bot.py: the acceptance filter *)

Skip(reason, found) == [skip |-> TRUE, reason |-> reason, found |-> found]
Proceed(found) == [skip |-> FALSE, reason |-> "", found |-> found]

\* mutant: the price rule is tried before the seat rules
ShouldSkipListingPriceFirst(listing, availability, cfg, found) ==
    IF ~cfg.max_price.isNone /\ listing.price > cfg.max_price.value
    THEN Skip("price too high", found)
    ELSE IF IntOfStr(listing.seats) < cfg.min_seats
    THEN Skip("too few seats", found)
    ELSE IF IntOfStr(listing.seats) >= cfg.max_seats
    THEN Skip("too many seats", found)
    ELSE IF availability.isNone \/ ~availability.available
    THEN Skip("Ticket unavailable", found)
    ELSE IF /\ cfg.skip_meetup_delivery
            /\ \E i \in DOMAIN availability.delivery_plan :
                  availability.delivery_plan[i] = MeetupMethod
    THEN Skip("meetup delivery", found)
    ELSE Proceed(found)

\* mutant: the maximum seat count is inclusive
ShouldSkipListingInclusiveMax(listing, availability, cfg, found) ==
    IF IntOfStr(listing.seats) < cfg.min_seats
    THEN Skip("too few seats", found)
    ELSE IF IntOfStr(listing.seats) > cfg.max_seats
    THEN Skip("too many seats", found)
    ELSE IF ~cfg.max_price.isNone /\ listing.price > cfg.max_price.value
    THEN Skip("price too high", found)
    ELSE IF availability.isNone \/ ~availability.available
    THEN Skip("Ticket unavailable", found)
    ELSE IF /\ cfg.skip_meetup_delivery
            /\ \E i \in DOMAIN availability.delivery_plan :
                  availability.delivery_plan[i] = MeetupMethod
    THEN Skip("meetup delivery", found)
    ELSE Proceed(found)

\* mutant: a missing maximum price is read as a maximum of 0
ShouldSkipListingNoneIsZero(listing, availability, cfg, found) ==
    IF IntOfStr(listing.seats) < cfg.min_seats
    THEN Skip("too few seats", found)
    ELSE IF IntOfStr(listing.seats) >= cfg.max_seats
    THEN Skip("too many seats", found)
    ELSE IF listing.price > cfg.max_price.value
    THEN Skip("price too high", found)
    ELSE IF availability.isNone \/ ~availability.available
    THEN Skip("Ticket unavailable", found)
    ELSE IF /\ cfg.skip_meetup_delivery
            /\ \E i \in DOMAIN availability.delivery_plan :
                  availability.delivery_plan[i] = MeetupMethod
    THEN Skip("meetup delivery", found)
    ELSE Proceed(found)

\* TwicketBot._should_skip_listing: the returned flag, the status message it adds
\* and self.found_tickets as it leaves it
ShouldSkipListing(listing, availability, cfg, found) ==
    IF IntOfStr(listing.seats) < cfg.min_seats
    THEN Skip("too few seats", found)
    ELSE IF IntOfStr(listing.seats) >= cfg.max_seats
    THEN Skip("too many seats", found)
    ELSE IF ~cfg.max_price.isNone /\ listing.price > cfg.max_price.value
    THEN Skip("price too high", found)
    ELSE IF availability.isNone \/ ~availability.available
    THEN Skip("Ticket unavailable",
              IF SkipKey(listing) \in DOMAIN found
              THEN SetStatus(found, SkipKey(listing), "No Longer Available")
              ELSE found)
    ELSE IF /\ cfg.skip_meetup_delivery
            /\ \E i \in DOMAIN availability.delivery_plan :
                  availability.delivery_plan[i] = MeetupMethod
    THEN Skip("meetup delivery", found)
    ELSE Proceed(found)

----------------------------------------------------------------------------
(* bot.py: options.sort(key=lambda x: x.section) *)

\* position p put behind every position whose section is not greater
RECURSIVE InsertBySection(_, _, _)
InsertBySection(list, sorted, p) ==
    IF sorted = << >> THEN << p >>
    ELSE IF StrLess(list[p].section, list[Head(sorted)].section)
         THEN << p >> \o sorted
         ELSE << Head(sorted) >> \o InsertBySection(list, Tail(sorted), p)

RECURSIVE SortPrefix(_, _)
SortPrefix(list, n) ==
    IF n = 0 THEN << >> ELSE InsertBySection(list, SortPrefix(list, n - 1), n)

\* mutant: the list is processed in the order it was fetched
SortBySectionOmitted(list) == [i \in 1..Len(list) |-> i]

\* the stable sort of list.sort, as the positions of the list in their new order
SortBySection(list) == SortPrefix(list, Len(list))

----------------------------------------------------------------------------
(* State after TwicketBot.__init__ *)

Markets == { m \in SUBSET Listings : Cardinality(m) \in 1..MaxMarket }

Init ==
    /\ config \in Configs
    /\ market \in Markets
    /\ pc = "init"
    /\ cycle = 0
    /\ fetched = << >>
    /\ options = << >>
    /\ idx = 0
    /\ found_tickets = << >>
    /\ opened_tickets = {}
    /\ tickets_processed = 0
    /\ tickets_opened = 0
    /\ browser_manager = NoBrowser
    /\ exit_code = -1
    /\ ended = ""
    /\ sleep_time = -1
    /\ cycleLog = << >>
    /\ everOpened = [i \in Identities |-> 0]
    /\ everNotified = [i \in Identities |-> 0]
    /\ observed = {}
    /\ failed_cycles = {}

\* the lists check_event_availability may return: no listing id twice in one answer
FetchedLists ==
    { list \in UNION { [1..n -> market] : n \in 1..MaxListings } :
        \A i, j \in DOMAIN list : i # j => list[i].id # list[j].id }

\* the outcomes of webbrowser.open: it returns True or False, or raises
OpenResults == { "true", "false", "raise" }

\* the outcomes of api_client.login: a token, None, or an exception
LoginResults == { "token", "none", "raise" }

----------------------------------------------------------------------------
(* run_monitoring_loop and main *)

\* what follows when something leaves the loop: the finally block of
\* run_monitoring_loop calls cleanup, its frame is left and its locals with it,
\* TwicketBot.__exit__ calls cleanup again, and main ends the process
Exits(bm, pending, why) ==
    /\ browser_manager' = Cleanup(Cleanup(bm))
    /\ exit_code' = MainExitCode(pending)
    /\ ended' = why
    /\ pc' = "exited"
    /\ fetched' = << >>
    /\ options' = << >>
    /\ idx' = 0
    /\ cycleLog' = << >>
    /\ UNCHANGED << envVars, sleep_time, cycle >>

\* self.initialize() succeeds: the browser is up and login returned a token
Initialize ==
    /\ pc = "init"
    /\ browser_manager' = BrowserInitialize(browser_manager, Len(Resources))
    /\ pc' = "fetch"
    /\ UNCHANGED << envVars, sleep_time, loopVars, ledgerVars, exit_code, ended, historyVars >>

\* the ways self.initialize() returns False: BrowserManager.initialize raised
\* behind its n-th assignment (login is not called), or the browser is up and
\* login raised or returned no token
InitFailures ==
    { f \in [started : 0..Len(Resources), login : LoginResults \cup {"not called"}] :
        IF f.login = "not called" THEN TRUE
        ELSE f.started = Len(Resources) /\ f.login # "token" }

\* if not self.initialize(): sys.exit(1)
InitializeFails ==
    /\ pc = "init"
    /\ \E f \in InitFailures :
          Exits(BrowserInitialize(browser_manager, f.started), "SystemExit", "initialization failed")
    /\ UNCHANGED << ledgerVars, everOpened, everNotified, observed, failed_cycles >>

\* the operator interrupts while self.initialize() runs: KeyboardInterrupt passes
\* the except Exception of initialize, is outside the try of the loop, and
\* reaches "except KeyboardInterrupt" of main
InterruptInitialize ==
    /\ pc = "init"
    /\ \E n \in 0..Len(Resources) :
          Exits(BrowserInitialize(browser_manager, n), "KeyboardInterrupt", "interrupted")
    /\ UNCHANGED << ledgerVars, everOpened, everNotified, observed, failed_cycles >>

\* mutant: an exception of the loop body ends the loop
LoopAfterErrorStops == "exited"

\* mutant: an exception of the loop body starts the next iteration at once
LoopAfterErrorRetries == "fetch"

\* where the loop goes from "except Exception" of the loop body: to the sleep
LoopAfterError == "sleep"

\* check_event_availability raises: caught by the except of the loop body
FetchRaises ==
    /\ pc = "fetch"
    /\ pc' = LoopAfterError
    /\ failed_cycles' = failed_cycles \cup {cycle}
    /\ UNCHANGED << envVars, sleep_time, loopVars, ledgerVars, processVars, cycleLog, everOpened,
                    everNotified, observed >>

\* the operator interrupts check_event_availability: "except KeyboardInterrupt"
\* of run_monitoring_loop handles it and the function returns
InterruptFetch ==
    /\ pc = "fetch"
    /\ Exits(browser_manager, "none", "interrupted")
    /\ UNCHANGED << ledgerVars, everOpened, everNotified, observed, failed_cycles >>

\* check_event_availability returns None (no responseData): "No tickets found"
FetchNone ==
    /\ pc = "fetch"
    /\ pc' = "sleep"
    /\ UNCHANGED << envVars, sleep_time, loopVars, ledgerVars, processVars, historyVars >>

\* check_event_availability returns listings, which are sorted by section
FetchListings ==
    /\ pc = "fetch"
    /\ \E list \in FetchedLists :
          /\ fetched' = list
          /\ options' = SortBySection(list)
    /\ idx' = 1
    /\ pc' = "process"
    /\ UNCHANGED << envVars, sleep_time, cycle, ledgerVars, processVars, historyVars >>

\* where the for loop goes after one _process_listing call has returned
AfterListing ==
    IF idx < Len(options)
    THEN /\ idx' = idx + 1
         /\ pc' = "process"
    ELSE /\ idx' = idx
         /\ pc' = "sleep"

\* one _should_skip_listing call: the availability it was given, its answer and
\* the status it left in ticket_info
Logged(availability, skip, outcome, opened, notified) ==
    Append(cycleLog, [pos |-> options[idx], availability |-> availability,
                      skip |-> skip.skip, reason |-> skip.reason, outcome |-> outcome,
                      opened |-> opened, notified |-> notified])

\* one _process_listing call: the position of its listing in fetched, the answer
\* of the inventory endpoint, the availability made of it, the filter's answer,
\* the status the call left in ticket_info ("raised" when it ended by an
\* exception), what webbrowser.open did and with which URL, and what the
\* delivery of the notification did ("none" where there was no such call)
LoggedCall(result, availability, skip, outcome, open_result, url, delivery) ==
    Append(cycleLog, [pos |-> options[idx], result |-> result,
                      availability |-> availability,
                      skip |-> skip.skip, reason |-> skip.reason, outcome |-> outcome,
                      opened |-> open_result # "none", open_result |-> open_result,
                      url |-> url,
                      notified |-> delivery # "none", delivery |-> delivery])

Observed(listing) == observed \cup {Identity(listing)}

\* get_ticket_availability raises in _process_listing(options[idx]): the except
\* of the loop body ends the cycle
ProcessRaises ==
    /\ pc = "process"
    /\ LET listing == fetched[options[idx]] IN
       \E result \in Responses :
          /\ GetTicketAvailability(result).raised
          /\ tickets_processed' = tickets_processed + 1
          /\ found_tickets' = RecordObservation(found_tickets, listing, cycle)
          /\ observed' = Observed(listing)
          /\ cycleLog' = LoggedCall(result, NoneAvailability, Proceed(<< >>), "raised",
                                    "none", << >>, "none")
    /\ pc' = LoopAfterError
    /\ UNCHANGED << envVars, sleep_time, loopVars, opened_tickets, tickets_opened, processVars,
                    everOpened, everNotified, failed_cycles >>

\* _process_listing(options[idx]) returning False before the open action
ProcessNoAction ==
    /\ pc = "process"
    /\ LET listing == fetched[options[idx]]
           key == TicketKey(listing)
           recorded == RecordObservation(found_tickets, listing, cycle)
       IN
       \E result \in Responses :
          LET got == GetTicketAvailability(result)
              skip == ShouldSkipListing(listing, got.value, config, recorded)
              status == IF skip.skip THEN "Skipped"
                        ELSE IF HasActed(listing, opened_tickets) THEN "Already Opened"
                        ELSE "No Block Info"
          IN
          /\ ~got.raised
          /\ \/ skip.skip
             \/ HasActed(listing, opened_tickets)
             \/ ~got.value.block.present
          /\ tickets_processed' = tickets_processed + 1
          /\ found_tickets' = SetStatus(skip.found, key, status)
          /\ observed' = Observed(listing)
          /\ cycleLog' = LoggedCall(result, got.value, skip, status, "none", << >>, "none")
    /\ AfterListing
    /\ UNCHANGED << envVars, sleep_time, cycle, fetched, options, opened_tickets, tickets_opened,
                    processVars, everOpened, everNotified, failed_cycles >>

\* mutant: the open action is not counted
IncrementTicketsOpenedOmitted(n) == n

\* self.tickets_opened += 1
IncrementTicketsOpened(n) == n + 1

\* whether _process_listing reaches notify_ticket_found: it follows
\* webbrowser.open inside the try, so it is reached unless open raised
NotifyTicketFound(open_result) == open_result # "raise"

\* _process_listing(options[idx]) reaching webbrowser.open
ProcessOpen ==
    /\ pc = "process"
    /\ LET listing == fetched[options[idx]]
           key == TicketKey(listing)
           recorded == RecordObservation(found_tickets, listing, cycle)
       IN
       \E result \in Responses, open_result \in OpenResults,
          delivery \in Deliveries \cup {"none"} :
          LET got == GetTicketAvailability(result)
              skip == ShouldSkipListing(listing, got.value, config, recorded)
              url == TicketUrl(got.value.block.block_id, listing.seats)
              marked == open_result # "raise"
              notified == NotifyTicketFound(open_result)
              status == IF marked /\ ~(notified /\ NotifyRaises(delivery))
                        THEN "Opened in Browser"
                        ELSE "Failed to Open"
          IN
          /\ ~got.raised
          /\ ~skip.skip
          /\ ~HasActed(listing, opened_tickets)
          /\ got.value.block.present
          /\ (delivery = "none") <=> ~notified
          /\ tickets_processed' = tickets_processed + 1
          /\ observed' = Observed(listing)
          /\ opened_tickets' = IF marked THEN MarkActed(listing, opened_tickets)
                               ELSE opened_tickets
          /\ tickets_opened' = IF marked THEN IncrementTicketsOpened(tickets_opened)
                               ELSE tickets_opened
          /\ everOpened' = IF marked
                           THEN [everOpened EXCEPT ![Identity(listing)] = @ + 1]
                           ELSE everOpened
          /\ everNotified' = IF notified
                             THEN [everNotified EXCEPT ![Identity(listing)] = @ + 1]
                             ELSE everNotified
          /\ found_tickets' = SetStatus(skip.found, key, status)
          /\ cycleLog' = LoggedCall(result, got.value, skip, status, open_result, url,
                                    delivery)
    /\ AfterListing
    /\ UNCHANGED << envVars, sleep_time, cycle, fetched, options, processVars, failed_cycles >>

\* the operator interrupts get_ticket_availability in _process_listing(options[idx])
InterruptProcess ==
    /\ pc = "process"
    /\ LET listing == fetched[options[idx]] IN
          /\ tickets_processed' = tickets_processed + 1
          /\ found_tickets' = RecordObservation(found_tickets, listing, cycle)
          /\ observed' = Observed(listing)
    /\ Exits(browser_manager, "none", "interrupted")
    /\ UNCHANGED << opened_tickets, tickets_opened, everOpened, everNotified,
                    failed_cycles >>

\* sleep(self._get_random_sleep_time(...)) and the next iteration of while True,
\* which rebinds options; the duration is drawn and slept within this step
Sleep ==
    /\ pc = "sleep"
    /\ cycle < MaxCycles
    /\ cycle' = cycle + 1
    /\ pc' = "fetch"
    /\ fetched' = << >>
    /\ options' = << >>
    /\ idx' = 0
    /\ cycleLog' = << >>
    /\ UNCHANGED << envVars, sleep_time, ledgerVars, processVars, everOpened, everNotified,
                    observed, failed_cycles >>

\* the operator interrupts the sleep
InterruptSleep ==
    /\ pc = "sleep"
    /\ Exits(browser_manager, "none", "interrupted")
    /\ UNCHANGED << ledgerVars, everOpened, everNotified, observed, failed_cycles >>

Next ==
    \/ Initialize
    \/ InitializeFails
    \/ InterruptInitialize
    \/ FetchRaises
    \/ InterruptFetch
    \/ FetchNone
    \/ FetchListings
    \/ ProcessRaises
    \/ ProcessNoAction
    \/ ProcessOpen
    \/ InterruptProcess
    \/ Sleep
    \/ InterruptSleep

Spec == Init /\ [][Next]_vars

----------------------------------------------------------------------------
(* The acceptance filter on its own: _should_skip_listing applied, at its call *)
(* in _process_listing, to one listing, any availability and any configuration *)

FilterConfigs ==
    { Config(mn, mx, mp, skip, 2) :
        mn \in {1, 2}, mx \in {3, 4}, mp \in {NoPrice, Price(0), Price(50)},
        skip \in BOOLEAN }

FilterPrices == {0, 40, 50, 60}

FilterListings ==
    { Listing(<<51>>, StrOfInt(n), <<65>>, <<66>>, p) :
        n \in 0..MaxSeatsInput, p \in FilterPrices }

\* every TicketAvailability value, and None
FilterAvailabilities ==
    { NoneAvailability,
      Availability(FALSE, NoBlock, << >>),
      Availability(FALSE, Block(Str(<<98, 49>>)), <<1>>),
      Availability(TRUE, NoBlock, << >>),
      Availability(TRUE, Block(Str(<<98, 49>>)), << >>),
      Availability(TRUE, Block(Str(<<98, 49>>)), <<0>>),
      Availability(TRUE, Block(Str(<<98, 49>>)), <<0, 1>>) }

\* _process_listing has recorded the observation of the one listing
FilterInit ==
    /\ config \in FilterConfigs
    /\ \E listing \in FilterListings :
          /\ market = {listing}
          /\ fetched = << listing >>
          /\ found_tickets = RecordObservation(<< >>, listing, 0)
    /\ options = << 1 >>
    /\ idx = 1
    /\ pc = "filter"
    /\ cycle = 0
    /\ opened_tickets = {}
    /\ tickets_processed = 1
    /\ tickets_opened = 0
    /\ browser_manager = BrowserInitialize(NoBrowser, Len(Resources))
    /\ exit_code = -1
    /\ ended = ""
    /\ sleep_time = -1
    /\ cycleLog = << >>
    /\ everOpened = [i \in Identities |-> 0]
    /\ everNotified = [i \in Identities |-> 0]
    /\ observed = { Identity(l) : l \in market }
    /\ failed_cycles = {}

Evaluate ==
    /\ pc = "filter"
    /\ \E availability \in FilterAvailabilities :
          LET skip == ShouldSkipListing(fetched[1], availability, config, found_tickets)
          IN  /\ found_tickets' = skip.found
              /\ cycleLog' = Logged(availability, skip,
                                    skip.found[TicketKey(fetched[1])].status, FALSE, FALSE)
    /\ pc' = "filtered"
    /\ UNCHANGED << envVars, sleep_time, loopVars, opened_tickets, tickets_processed,
                    tickets_opened, processVars, everOpened, everNotified, observed,
                    failed_cycles >>

FilterNext == Evaluate

FilterSpec == FilterInit /\ [][FilterNext]_vars

----------------------------------------------------------------------------
(* The jitter on its own: _get_random_sleep_time applied to any base delay and *)
(* any draw of random()                                                        *)

\* a number of seconds, in the unit of the durations: 1/(2 * Resolution) s
Seconds(n) == n * 2 * Resolution

\* the values of random.random(): r / Resolution for r in Randoms, in [0, 1)
Randoms == 0..(Resolution - 1)

\* random.uniform(a, b) for the draw r: a + (b - a) * random()
Uniform(a, b, r) == a + ((b - a) * r) \div Resolution

\* mutant: the interval reaches to twice the base time
GetRandomSleepTimeDouble(base_time, r) == Uniform(base_time, base_time * 2, r)

\* TwicketBot._get_random_sleep_time
GetRandomSleepTime(base_time, r) == Uniform(base_time, (base_time * 3) \div 2, r)

JitterConfigs == { Config(1, 4, NoPrice, TRUE, delay) : delay \in 0..MaxDelay }

\* the process has reached the sleep of its first iteration
JitterInit ==
    /\ config \in JitterConfigs
    /\ market = {T1}
    /\ pc = "sleep"
    /\ cycle = 0
    /\ fetched = << >>
    /\ options = << >>
    /\ idx = 0
    /\ found_tickets = << >>
    /\ opened_tickets = {}
    /\ tickets_processed = 0
    /\ tickets_opened = 0
    /\ browser_manager = BrowserInitialize(NoBrowser, Len(Resources))
    /\ exit_code = -1
    /\ ended = ""
    /\ sleep_time = -1
    /\ cycleLog = << >>
    /\ everOpened = [i \in Identities |-> 0]
    /\ everNotified = [i \in Identities |-> 0]
    /\ observed = {}
    /\ failed_cycles = {}

\* sleep(self._get_random_sleep_time(self.config.time_delay)) is entered
EnterSleep ==
    /\ pc = "sleep"
    /\ \E r \in Randoms :
          sleep_time' = GetRandomSleepTime(Seconds(config.time_delay), r)
    /\ pc' = "sleeping"
    /\ UNCHANGED << envVars, loopVars, ledgerVars, processVars, historyVars >>

JitterNext == EnterSleep

JitterSpec == JitterInit /\ [][JitterNext]_vars

----------------------------------------------------------------------------
(* Properties *)

\* the listing a logged _process_listing call was about
ListingOf(e) == fetched[e.pos]

\* the logged call reached the "already opened" check of _process_listing
ReachedGuard(e) == ~e.skip /\ e.outcome # "raised"

\* number of Opened transitions of identity i made by the calls k..end of this cycle
OpensFrom(i, k) ==
    Cardinality({ j \in DOMAIN cycleLog :
                    /\ j >= k
                    /\ Identity(ListingOf(cycleLog[j])) = i
                    /\ cycleLog[j].outcome = "Opened in Browser" })

\* identity i had reached Opened before the k-th call of this cycle began
OpenedBefore(i, k) == everOpened[i] - OpensFrom(i, k) >= 1

\* C1: at-most-once action: no identity's ledger entry is set to Opened more than
\* once during the run, whatever the polls, availability answers and open results.
C1_AtMostOnce == \A i \in Identities : everOpened[i] <= 1

\* an identity opened in an earlier cycle is observed again in the last cycle
C1_Witness ==
    /\ cycle = MaxCycles
    /\ \E k \in DOMAIN cycleLog :
          /\ OpenedBefore(Identity(ListingOf(cycleLog[k])), 1)
          /\ ReachedGuard(cycleLog[k])

\* C2: sticky guard: a _process_listing call for an identity that was opened
\* before and passes the filter ends with Already Opened, without calling
\* webbrowser.open or the notifier; and a listing once guarded stays guarded.
C2_StickyGuard ==
    [][ /\ \A l \in Listings :
              HasActed(l, opened_tickets) => HasActed(l, opened_tickets')
        /\ (/\ pc = "process"
            /\ Len(cycleLog') = Len(cycleLog) + 1
            /\ everOpened[Identity(fetched[options[idx]])] >= 1
            /\ ReachedGuard(cycleLog'[Len(cycleLog')]))
           => LET e == cycleLog'[Len(cycleLog')] IN
              /\ e.outcome = "Already Opened"
              /\ ~e.opened
              /\ ~e.notified
              /\ everOpened' = everOpened
              /\ tickets_opened' = tickets_opened ]_vars

\* a call ended with Already Opened in a cycle after the one that opened the ticket
C2_Witness ==
    \E k \in DOMAIN cycleLog :
        /\ cycleLog[k].outcome = "Already Opened"
        /\ everOpened[Identity(ListingOf(cycleLog[k]))] = 1
        /\ found_tickets[TicketKey(ListingOf(cycleLog[k]))].status = "Already Opened"

\* C3 as claimed: the guard is true for a candidate exactly when the ledger entry
\* of the candidate's own identity (section, row, seats, id) reached Opened before.
C3_GuardPerIdentity ==
    \A k \in DOMAIN cycleLog :
        ReachedGuard(cycleLog[k]) =>
            ( cycleLog[k].outcome = "Already Opened"
              <=> OpenedBefore(Identity(ListingOf(cycleLog[k])), k) )

\* C3 amended: the guard is true for a candidate exactly when some identity with
\* the candidate's listing id reached Opened before.
C3_GuardPerListingId ==
    \A k \in DOMAIN cycleLog :
        ReachedGuard(cycleLog[k]) =>
            ( cycleLog[k].outcome = "Already Opened"
              <=> \E l \in Listings :
                     /\ l.id = ListingOf(cycleLog[k]).id
                     /\ OpenedBefore(Identity(l), k) )

\* a candidate is classified Already Opened although its own identity never opened
C3_Witness ==
    \E k \in DOMAIN cycleLog :
        /\ cycleLog[k].outcome = "Already Opened"
        /\ everOpened[Identity(ListingOf(cycleLog[k]))] = 0

----------------------------------------------------------------------------
(* Properties of the acceptance filter, under FilterSpec *)

\* the seat count of a listing, as the number whose decimal form its seats field is
SeatsOf(l) == CHOOSE n \in 0..MaxSeatsInput : StrOfInt(n) = l.seats

TooFew(l, cfg) == SeatsOf(l) < cfg.min_seats
TooMany(l, cfg) == SeatsOf(l) >= cfg.max_seats
TooDear(l, cfg) == ~cfg.max_price.isNone /\ l.price > cfg.max_price.value
Unavailable(a) == a.isNone \/ ~a.available
Meetup(a, cfg) ==
    cfg.skip_meetup_delivery /\ \E i \in DOMAIN a.delivery_plan : a.delivery_plan[i] = 1

\* the reason of the first rule that rejects, "" when none does
FirstReason(l, a, cfg) ==
    CASE TooFew(l, cfg) -> "too few seats"
      [] ~TooFew(l, cfg) /\ TooMany(l, cfg) -> "too many seats"
      [] ~TooFew(l, cfg) /\ ~TooMany(l, cfg) /\ TooDear(l, cfg) -> "price too high"
      [] ~TooFew(l, cfg) /\ ~TooMany(l, cfg) /\ ~TooDear(l, cfg) /\ Unavailable(a)
            -> "Ticket unavailable"
      [] ~TooFew(l, cfg) /\ ~TooMany(l, cfg) /\ ~TooDear(l, cfg) /\ ~Unavailable(a)
            /\ Meetup(a, cfg) -> "meetup delivery"
      [] OTHER -> ""

\* C4: filter precedence: the filter rejects exactly when one of the five rules
\* matches, and the reason it reports is that of the first matching rule in the
\* order seats below minimum, seats at or above maximum, price above maximum,
\* availability missing or false, meetup delivery.
C4_FilterPrecedence ==
    pc = "filtered" =>
        LET e == cycleLog[1]
            l == fetched[1]
        IN  /\ e.skip <=> ( \/ TooFew(l, config) \/ TooMany(l, config)
                            \/ TooDear(l, config) \/ Unavailable(e.availability)
                            \/ Meetup(e.availability, config) )
            /\ e.reason = FirstReason(l, e.availability, config)

\* seats below the minimum and price above the maximum: the seat reason is reported
C4_Witness ==
    /\ pc = "filtered"
    /\ TooFew(fetched[1], config)
    /\ TooDear(fetched[1], config)
    /\ cycleLog[1].reason = "too few seats"

\* C5: exclusive upper seat bound: with the price, availability and meetup rules
\* satisfied, a listing of exactly max_seats seats is rejected and one of
\* max_seats - 1 seats (at least min_seats) is accepted.
C5_ExclusiveUpperBound ==
    ( /\ pc = "filtered"
      /\ ~TooDear(fetched[1], config)
      /\ ~Unavailable(cycleLog[1].availability)
      /\ ~Meetup(cycleLog[1].availability, config) )
    => /\ SeatsOf(fetched[1]) = config.max_seats => cycleLog[1].skip
       /\ ( /\ SeatsOf(fetched[1]) = config.max_seats - 1
            /\ SeatsOf(fetched[1]) >= config.min_seats ) => ~cycleLog[1].skip

\* a listing of exactly max_seats seats, otherwise acceptable, has been rejected
C5_Witness ==
    /\ pc = "filtered"
    /\ SeatsOf(fetched[1]) = config.max_seats
    /\ ~TooDear(fetched[1], config)
    /\ ~Unavailable(cycleLog[1].availability)
    /\ ~Meetup(cycleLog[1].availability, config)
    /\ cycleLog[1].skip

\* C6: no configured maximum price: the price rule never rejects, and the decision
\* is the one the rules other than the price rule give, whatever the price.
C6_NoPriceLimit ==
    ( pc = "filtered" /\ config.max_price.isNone )
    => /\ cycleLog[1].reason # "price too high"
       /\ cycleLog[1].skip <=> ( \/ TooFew(fetched[1], config)
                                 \/ TooMany(fetched[1], config)
                                 \/ Unavailable(cycleLog[1].availability)
                                 \/ Meetup(cycleLog[1].availability, config) )

\* the dearest listing is accepted when no maximum price is configured
C6_Witness ==
    /\ pc = "filtered"
    /\ config.max_price.isNone
    /\ \A p \in FilterPrices : p <= fetched[1].price
    /\ ~cycleLog[1].skip

----------------------------------------------------------------------------
(* Properties of the loop, under Spec *)

\* a is before b in lexicographic order of code points
LexBefore(a, b) ==
    \E k \in 1..(Len(b)) :
        /\ \A i \in 1..(k - 1) : i <= Len(a) /\ a[i] = b[i]
        /\ \/ k = Len(a) + 1
           \/ k <= Len(a) /\ a[k] < b[k]

\* C7: processing order: the candidates of a cycle are processed one at a time in
\* ascending lexical order of section, candidates of equal section in the order of
\* the fetched list, and every candidate before the current one is resolved.
C7_ProcessingOrder ==
    /\ Len(options) = Len(fetched)
    /\ { options[i] : i \in DOMAIN options } = DOMAIN fetched
    /\ \A i, j \in DOMAIN options :
          i < j => /\ ~LexBefore(fetched[options[j]].section, fetched[options[i]].section)
                   /\ fetched[options[i]].section = fetched[options[j]].section
                         => options[i] < options[j]
    /\ \A k \in DOMAIN cycleLog : cycleLog[k].pos = options[k]
    /\ pc = "process" =>
          /\ Len(cycleLog) = idx - 1
          /\ \A k \in DOMAIN cycleLog :
                LET entry == found_tickets[TicketKey(ListingOf(cycleLog[k]))] IN
                /\ cycleLog[k].outcome \notin {"raised", "Checking..."}
                /\ entry.timestamp = cycle

\* a cycle has processed the second fetched listing before the first one
C7_Witness ==
    /\ pc = "sleep"
    /\ Len(cycleLog) = Len(options)
    /\ Len(options) >= 2
    /\ options[1] > options[2]

\* C8 as claimed: an exception while one candidate is processed does not keep the
\* remaining candidates of the cycle from being processed in that cycle.
C8_FailureContained ==
    pc = "sleep" => Len(cycleLog) = Len(options)

\* C9 as claimed: at the end of a cycle no entry observed in that cycle is left in
\* status Checking.
C9_NoEntryLeftChecking ==
    pc = "sleep" =>
        \A k \in DOMAIN cycleLog :
            found_tickets[TicketKey(ListingOf(cycleLog[k]))].status # "Checking..."

\* C10 as claimed: a candidate rejected because its availability re-check said
\* available=false ends with outcome Unavailable, one rejected by the seat, price
\* or meetup rules with outcome Skipped.
C10_RejectionOutcomes ==
    \A k \in DOMAIN cycleLog :
        LET e == cycleLog[k] IN
        e.skip =>
            IF e.reason = "Ticket unavailable"
            THEN ~e.availability.isNone => e.outcome = "No Longer Available"
            ELSE e.outcome = "Skipped"

----------------------------------------------------------------------------
(* The block of an availability answer *)

\* the seat and price rules of the filter let the listing of entry e pass
PassesRules(e) ==
    /\ ~TooFew(ListingOf(e), config)
    /\ ~TooMany(ListingOf(e), config)
    /\ ~TooDear(ListingOf(e), config)

\* the inventory endpoint answered available=true without a block
AnsweredWithoutBlock(e) ==
    e.result.kind = "json" /\ e.result.available /\ e.result.block = "absent"

\* the inventory endpoint answered available=true with a block that carries no
\* usable blockId: the field is missing or null
AnsweredWithoutBlockId(e) ==
    /\ e.result.kind = "json"
    /\ e.result.available
    /\ \/ e.result.block = "noid"
       \/ e.result.block = "ok" /\ e.result.blockId.isNone

\* C11 as claimed: a candidate that is available and passes the filter, and whose
\* availability answer lacks a block, gets outcome No Block Info, the open action
\* is not invoked for it and it is not marked as acted.
C11_NoBlockOutcome ==
    \A k \in DOMAIN cycleLog :
        LET e == cycleLog[k] IN
        (AnsweredWithoutBlock(e) /\ PassesRules(e)
            /\ ~HasActed(ListingOf(e), opened_tickets)) =>
                e.outcome = "No Block Info" /\ ~e.opened

\* C12 as claimed: the open action is only invoked with a URL built from a
\* non-null block id, and a candidate whose availability answer carries no block
\* id ends with a recorded outcome, without the open action and without an
\* exception.
C12_BlockIdRequired ==
    \A k \in DOMAIN cycleLog :
        LET e == cycleLog[k] IN
        /\ e.opened =>
              /\ ~e.availability.block.block_id.isNone
              /\ e.url = TicketUrl(e.availability.block.block_id, ListingOf(e).seats)
        /\ (AnsweredWithoutBlock(e) \/ AnsweredWithoutBlockId(e)) =>
              e.outcome # "raised" /\ ~e.opened

\* C13 as claimed: when the open action fails (webbrowser.open returns False or
\* raises) the outcome is Failed to Open, the candidate is not marked as acted
\* and no notification is sent.
C13_OpenFailure ==
    \A k \in DOMAIN cycleLog :
        LET e == cycleLog[k] IN
        e.open_result \in {"false", "raise"} =>
            /\ e.outcome = "Failed to Open"
            /\ ~e.notified
            /\ ~HasActed(ListingOf(e), opened_tickets)

----------------------------------------------------------------------------
(* Failed fetches and repeat observations *)

\* in this step one _process_listing call returned or raised
CallLogged == Len(cycleLog') = Len(cycleLog) + 1

\* the call logged by this step
NewEntry == cycleLog'[Len(cycleLog')]

\* C14: a step in which the listing fetch fails changes no ledger entry, not the
\* set of acted tickets and no counter, and leads the loop to its sleep; in the
\* cycle after a failed one, a candidate that passes the filter, has a block and
\* was not opened before is handed to the open action, and is marked unless the
\* open action raised.
C14_CycleIsolation ==
    [][ /\ failed_cycles' # failed_cycles =>
              /\ ledgerVars' = ledgerVars
              /\ pc' = "sleep"
              /\ exit_code' = -1
        /\ (CallLogged /\ (cycle - 1) \in failed_cycles) =>
              LET e == NewEntry
                  listing == fetched[e.pos]
              IN  (/\ e.outcome # "raised"
                   /\ ~e.skip
                   /\ e.availability.block.present
                   /\ ~HasActed(listing, opened_tickets)) =>
                      /\ e.opened
                      /\ e.open_result # "raise" => HasActed(listing, opened_tickets')
      ]_vars

\* a ledger entry of cycle 0 is kept, the fetch of cycle 1 failed, and a ticket
\* is opened in cycle 2
C14_Witness ==
    /\ cycle = 2
    /\ 1 \in failed_cycles
    /\ \E key \in DOMAIN found_tickets : found_tickets[key].timestamp = 0
    /\ \E k \in DOMAIN cycleLog : cycleLog[k].outcome = "Opened in Browser"

\* C15 as claimed: after an observation the ledger entry of the candidate shows
\* the price of the candidate observed last.
C15_RepeatSightOverwrites ==
    \A k \in DOMAIN cycleLog :
        LET l == ListingOf(cycleLog[k]) IN
        found_tickets[TicketKey(l)].price = l.price

----------------------------------------------------------------------------
(* The end of the process *)

\* no browser resource is held, and each one started was closed once
Released(bm) ==
    \A r \in ResourceNames : ~bm[r].handle /\ bm[r].closes = bm[r].starts

\* C16: the step in which initialization fails is taken from the start of the
\* run, before any listing fetch or candidate processing, releases the browser
\* session and ends the process with a non-zero exit status; nothing happens
\* after the process has ended.
C16_InitFailureFatal ==
    [][ /\ ended' = "initialization failed" =>
              /\ pc = "init"
              /\ pc' = "exited"
              /\ tickets_processed' = 0
              /\ observed' = {}
              /\ failed_cycles' = {}
              /\ Released(browser_manager')
              /\ exit_code' > 0
        /\ pc # "exited"
      ]_vars

\* login failed behind a started browser, which has been released
C16_Witness ==
    /\ ended = "initialization failed"
    /\ exit_code = 1
    /\ \A r \in ResourceNames : browser_manager[r].starts = 1
    /\ Released(browser_manager)

\* C17: an operator interrupt, whether it arrives during initialization, a
\* listing fetch, an availability check or the sleep, stops the loop, releases the
\* browser session and ends the process with exit status 0.
C17_OperatorCancellation ==
    [][ ended' = "interrupted" =>
            /\ pc \in {"init", "fetch", "process", "sleep"}
            /\ pc' = "exited"
            /\ Released(browser_manager')
            /\ exit_code' = 0
      ]_vars

\* the interrupt arrived during the availability check of the second candidate
\* of a cycle
C17_Witness ==
    /\ ended = "interrupted"
    /\ exit_code = 0
    /\ tickets_processed = 2
    /\ \E key \in DOMAIN found_tickets : found_tickets[key].status = "Checking..."
    /\ \E r \in ResourceNames : browser_manager[r].closes = 1

----------------------------------------------------------------------------
(* Notifications *)

\* C18 as claimed: the notification is sent exactly for the open actions that
\* succeeded (webbrowser.open returned True), with the ticket marked as acted by
\* then, and no listing id is notified twice.
C18_NotifiedOncePerOpen ==
    /\ \A k \in DOMAIN cycleLog :
          LET e == cycleLog[k] IN
          /\ e.notified <=> e.open_result = "true"
          /\ e.notified => HasActed(ListingOf(e), opened_tickets)
    /\ \A i \in Identities :
          /\ everNotified[i] <= 1
          /\ \A j \in Identities :
                (i # j /\ i[4] = j[4]) => everNotified[i] + everNotified[j] <= 1

\* C19: when the delivery of the notification fails, the call still records
\* Opened in Browser, the ticket stays marked as acted, the process goes on, and
\* the loop moves to the next candidate of the cycle, or to the sleep behind the
\* last one.
C19_NotificationFailureAbsorbed ==
    [][ (CallLogged /\ NewEntry.delivery = "fail") =>
            /\ NewEntry.outcome = "Opened in Browser"
            /\ found_tickets'[TicketKey(fetched[NewEntry.pos])].status = "Opened in Browser"
            /\ HasActed(fetched[NewEntry.pos], opened_tickets')
            /\ exit_code' = -1
            /\ IF idx < Len(options)
               THEN pc' = "process" /\ idx' = idx + 1
               ELSE pc' = "sleep"
      ]_vars

\* behind a failed delivery the next candidate of the cycle was opened
C19_Witness ==
    /\ Len(cycleLog) = 2
    /\ cycleLog[1].delivery = "fail"
    /\ cycleLog[2].outcome = "Opened in Browser"
    /\ cycleLog[2].delivery = "ok"

\* C20 as claimed: the ledger holds exactly one entry per distinct identity ever
\* observed.
C20_OneEntryPerIdentity ==
    Cardinality(DOMAIN found_tickets) = Cardinality(observed)

----------------------------------------------------------------------------
(* Frame of the filter and of _process_listing *)

\* the availabilities get_ticket_availability may return to _process_listing
ReturnedAvailabilities ==
    { GetTicketAvailability(result).value :
        result \in { r \in Responses : ~GetTicketAvailability(r).raised } }

\* C21 as claimed: evaluating the acceptance filter for the candidate at hand,
\* whatever its availability, leaves the ledger as it was before the evaluation.
C21_FilterPure ==
    pc = "process" =>
        LET listing == fetched[options[idx]]
            recorded == RecordObservation(found_tickets, listing, cycle)
        IN  \A availability \in ReturnedAvailabilities :
                ShouldSkipListing(listing, availability, config, recorded).found = recorded

----------------------------------------------------------------------------
(* Fetches and sleeps *)

\* C22: a listing fetch is only reached from initialization or through the one
\* sleep that ends an iteration; an iteration goes to the sleep whether its fetch
\* returned listings, returned none or raised, and whether or not the processing
\* of a candidate raised; the sleep leads to the next fetch and to nothing else.
C22_OneSleepPerIteration ==
    [][ /\ (pc' = "fetch" /\ pc # "fetch") =>
              \/ pc = "init"
              \/ pc = "sleep" /\ cycle' = cycle + 1
        /\ pc = "fetch" => pc' \in {"process", "sleep", "exited"}
        /\ pc = "process" => pc' \in {"process", "sleep", "exited"}
        /\ pc = "sleep" => pc' \in {"fetch", "exited"}
        /\ failed_cycles' # failed_cycles => pc' = "sleep"
        /\ (CallLogged /\ NewEntry.outcome = "raised") => pc' = "sleep"
        /\ (CallLogged /\ Len(cycleLog') = Len(options)) => pc' = "sleep"
      ]_vars

\* the third fetch is due: the first fetch raised, and the processing of a
\* candidate raised in the second iteration
C22_Witness ==
    /\ pc = "fetch"
    /\ cycle = 2
    /\ failed_cycles = {0}
    /\ \E key \in DOMAIN found_tickets : found_tickets[key].status = "Checking..."

----------------------------------------------------------------------------
(* The URL of the open action *)

\* C23: the URL handed to webbrowser.open is the prefix
\* https://www.twickets.live/app/block/ followed by the blockId of the answer the
\* inventory endpoint gave for this candidate in this call (written None when it
\* is null), a comma and the seat count of this candidate.
C23_UrlOfOwnAvailability ==
    \A k \in DOMAIN cycleLog :
        LET e == cycleLog[k] IN
        e.opened =>
            /\ e.result.kind = "json"
            /\ e.result.block = "ok"
            /\ e.url = UrlPrefix \o FormatStr(e.result.blockId) \o <<44>>
                           \o ListingOf(e).seats

\* two candidates of one cycle with different seat counts and different block
\* ids were handed to the open action
C23_Witness ==
    /\ Len(cycleLog) = 2
    /\ cycleLog[1].opened
    /\ cycleLog[2].opened
    /\ cycleLog[1].result.blockId # cycleLog[2].result.blockId
    /\ ListingOf(cycleLog[1]).seats # ListingOf(cycleLog[2]).seats
    /\ cycleLog[1].url # cycleLog[2].url

----------------------------------------------------------------------------
(* The jitter *)

\* C24 as claimed: a sleep duration d satisfies base <= d < base * 1.5.
C24_JitterHalfOpen ==
    pc = "sleeping" =>
        /\ Seconds(config.time_delay) <= sleep_time
        /\ 2 * sleep_time < 3 * Seconds(config.time_delay)

\* C24 as amended: a sleep duration d satisfies base <= d <= base * 1.5, for a
\* base delay that is not negative.
C24_JitterClosed ==
    pc = "sleeping" =>
        /\ Seconds(config.time_delay) <= sleep_time
        /\ 2 * sleep_time <= 3 * Seconds(config.time_delay)

\* a duration strictly inside the interval of a positive base delay
C24_Witness ==
    /\ pc = "sleeping"
    /\ config.time_delay > 0
    /\ Seconds(config.time_delay) < sleep_time
    /\ 2 * sleep_time < 3 * Seconds(config.time_delay)

----------------------------------------------------------------------------
(* The availability client and the No Block Info outcome *)

\* C25: get_ticket_availability never returns an availability that is available
\* and has no block; an answer with available=true and no block is returned as
\* available=False without block, the candidate is rejected by the filter as
\* unavailable (where the seat and price rules let it pass) and ends Skipped; no
\* call ends with No Block Info.
C25_NoBlockIsUnavailable ==
    /\ \A availability \in ReturnedAvailabilities :
          (~availability.isNone /\ availability.available) => availability.block.present
    /\ \A k \in DOMAIN cycleLog :
          LET e == cycleLog[k] IN
          /\ e.outcome # "No Block Info"
          /\ AnsweredWithoutBlock(e) =>
                /\ ~e.availability.isNone
                /\ ~e.availability.available
                /\ ~e.availability.block.present
                /\ e.skip
                /\ e.outcome = "Skipped"
                /\ PassesRules(e) => e.reason = "Ticket unavailable"

\* a candidate that passes the seat and price rules was answered available=true
\* without block and was rejected as unavailable
C25_Witness ==
    \E k \in DOMAIN cycleLog :
        /\ AnsweredWithoutBlock(cycleLog[k])
        /\ PassesRules(cycleLog[k])
        /\ cycleLog[k].reason = "Ticket unavailable"
        /\ found_tickets[TicketKey(ListingOf(cycleLog[k]))].status = "Skipped"

\* C26 as claimed: processing the candidate at hand, whatever its availability,
\* leaves the ledger entries under every key but its own as they were.
C26_OnlyOwnEntry ==
    pc = "process" =>
        LET listing == fetched[options[idx]]
            others == DOMAIN found_tickets \ {TicketKey(listing)}
            recorded == RecordObservation(found_tickets, listing, cycle)
        IN  \A availability \in ReturnedAvailabilities, k \in others :
                /\ recorded[k] = found_tickets[k]
                /\ ShouldSkipListing(listing, availability, config, recorded).found[k]
                       = found_tickets[k]

\* C27 as claimed: the ledger entry under the key of an observed candidate
\* belongs to the identity of that candidate: two identities never share an entry.
C27_KeyInjective ==
    \A k \in DOMAIN cycleLog :
        LET l == ListingOf(cycleLog[k])
            entry == found_tickets[TicketKey(l)]
        IN  << entry.section, entry.row, entry.seats, entry.id >> = Identity(l)

----------------------------------------------------------------------------
(* Counters *)

\* C28: in every state tickets_opened is the number of listing ids in
\* opened_tickets and is at most tickets_processed; no step lowers a counter or
\* takes an id out of opened_tickets; every step of _process_listing, however it
\* ends, adds one to tickets_processed, and no other step changes it.
C28_Counters ==
    /\ [](/\ tickets_opened = Cardinality(opened_tickets)
          /\ tickets_opened <= tickets_processed)
    /\ [][ /\ tickets_opened' >= tickets_opened
           /\ tickets_processed' >= tickets_processed
           /\ opened_tickets \subseteq opened_tickets'
           /\ pc = "process" => tickets_processed' = tickets_processed + 1
           /\ tickets_processed' # tickets_processed => pc = "process"
         ]_vars

\* two tickets were opened and a third candidate was processed without being
\* opened
C28_Witness ==
    /\ tickets_opened = 2
    /\ Cardinality(opened_tickets) = 2
    /\ tickets_processed = 3

----------------------------------------------------------------------------
(* Release of the browser *)

\* C29: cleanup leaves every handle unset and a second cleanup changes nothing;
\* when the process has ended, after the cleanup of the finally block and the one
\* of __exit__, no handle is set and each resource that was started has been
\* closed exactly once.
C29_CleanupIdempotent ==
    /\ \A r \in ResourceNames : ~Cleanup(browser_manager)[r].handle
    /\ Cleanup(Cleanup(browser_manager)) = Cleanup(browser_manager)
    /\ \A r \in ResourceNames :
          /\ browser_manager[r].closes <= 1
          /\ browser_manager[r].closes <= browser_manager[r].starts
    /\ pc = "exited" =>
          /\ Released(browser_manager)
          /\ Cleanup(browser_manager) = browser_manager

\* the process ended behind a browser start that got as far as the browser:
\* playwright and browser were closed once, context and page never existed
C29_Witness ==
    /\ pc = "exited"
    /\ browser_manager["playwright"].closes = 1
    /\ browser_manager["browser"].closes = 1
    /\ browser_manager["context"].starts = 0
    /\ browser_manager["page"].starts = 0

====
